---- MODULE Spec2Model ----
(***************************************************************************)
(* geobind: the batch loop of bin/processInterfaces.py (main) and the      *)
(* neighbour search of geobind/mesh/mesh.py (Mesh.findNeighbors).          *)
(*                                                                         *)
(* main() is modelled statement group by statement group: every variable   *)
(* below is either a local of main(), a command-line argument, a file the  *)
(* loop reads or writes, or a record of what the current iteration did.    *)
(* The structures file names a different structure on every non-comment    *)
(* line; the mesh file and the bundle of a structure are what the          *)
(* statement that looks at them finds on disk (os.path.exists, np.load).   *)
(* Every call into a collaborator (StructureData, cleanProtein,            *)
(* generateMesh, the feature providers, np.savez_compressed, ...) may      *)
(* raise; main() has no handler, so an exception ends the run.             *)
(***************************************************************************)
EXTENDS Naturals, Sequences, FiniteSets

\* ------------------------------------------------------------------ bounds
MaxLines == 2
NumVerts == 4
MaxK == 3
MaxComps == 3
MaxSize == 5

\* ------------------------------------------------------- bundle contents
\* A bundle (and the dict `arrays`) maps every key to its value, "-" when the
\* key is absent.  The value of an array is the mesh it was computed on.
GeomKeys == {"V", "F", "N", "name"}
FeatKeys == {"X", "feature_names"}
LabelKeysA == {"Y_A", "Y_A_classes"}
LabelKeysB == {"Y_B", "Y_B_classes"}
AllKeys == GeomKeys \cup FeatKeys \cup LabelKeysA \cup LabelKeysB

Meshes == {"m1", "m2"}

EmptyDict == [k \in AllKeys |-> "-"]

Has(d, k) == d[k] # "-"

Keys(d) == {k \in AllKeys : Has(d, k)}

\* arrays[key] = value for every key of the set ks
PutAll(d, ks, val) == [k \in AllKeys |-> IF k \in ks THEN val ELSE d[k]]

NoFile == [state |-> "absent", arrays |-> EmptyDict]

Complete(d) == [state |-> "complete", arrays |-> d]

\* np.savez_compressed opens the zip archive at fname for writing and adds the
\* arrays one by one: until it returns, the file is a truncated archive.
Truncated == [state |-> "partial", arrays |-> EmptyDict]

\* The arrays main() stores from the mesh: V, F, name and N.
WithGeometry(d, m) ==
    [k \in AllKeys |-> IF k = "name" THEN "id"
                       ELSE IF k \in GeomKeys THEN m ELSE d[k]]

\* What an earlier run left at <FEATURE_DATA_PATH>/<protein_id>_data.npz:
\* nothing, or V, F, N, name with any of the groups X, Y_A, Y_B, all computed
\* on the mesh m1.
StoredBundles ==
    {NoFile} \cup
    { Complete(PutAll(WithGeometry(EmptyDict, "m1"), g, "m1")) :
        g \in { fs \cup la \cup lb :
                  fs \in {{}, FeatKeys}, la \in {{}, LabelKeysA},
                  lb \in {{}, LabelKeysB} } }

\* What is at <MESH_FILES_PATH>/<protein_id>_mesh.off
StoredMeshes == {"none"} \cup Meshes

\* ------------------------------------------------------------ config file
RequiredKeys == {"AREA_MEASURE", "PDB_FILES_PATH", "HYDROGENS", "MESH_FILES_PATH",
                 "FEATURE_DATA_PATH", "SMOOTH_LABELS", "MASK_LABELS",
                 "MESH_DISTANCE_CUTOFF"}

LabelConfigKeys == {"SMOOTH_LABELS", "MASK_LABELS", "MESH_DISTANCE_CUTOFF"}

\* -------------------------------------------------------- structures file
LineKinds == {"structure", "comment", "blank"}

RECURSIVE SeqsUpTo(_, _)
SeqsUpTo(S, n) ==
    IF n = 0 THEN {<<>>}
    ELSE LET shorter == SeqsUpTo(S, n - 1)
         IN shorter \cup {Append(s, x) : s \in shorter, x \in S}

ListFiles == SeqsUpTo(LineKinds, MaxLines)

VARIABLES
    ARGS,            \* refresh, no_features, no_labels, no_adjacency, moieties_file
    refresh0,        \* the --refresh the caller passed
    C,               \* keys of the JSON config
    lines,           \* the structures file, line by line
    pc, idx,         \* position in main(), number of the current line
    err,             \* why main() stopped: "none", "config" (KeyError on C,
                     \* no classifier), "unbound" (atom_mapper never bound),
                     \* "structure" (any other exception in the loop body)
    atom_mapper,     \* TRUE once line 81-90 bound the name
    manifest, manifestOpen,  \* PROCESSED: the lines written, the handle
    temps,           \* temporary files on disk: <<line, "pdb" | "pqr">>
    loaded,          \* lines whose StructureData was constructed
    meshOnDisk,      \* mesh file of the current structure in MESH_FILES_PATH
    cwdMesh,         \* TRUE when Mesh.save exported to the working directory
    meshFile,        \* local meshFile: "path" or "None"
    mesh,            \* local mesh
    generated,       \* generateMesh was called in this iteration
    prior, bundle,   \* the bundle file at fname: as found, as it is now
    arrays,          \* local arrays
    update_features, update_labels, FEATURES, Y,
    written,         \* lines whose np.savez_compressed returned
    adjFiles,        \* lines whose adjacency file was written
    graph, fv, fk, nbrs, mpc   \* Mesh.findNeighbors: graph, v, k, result

\* a Mesh object (geobind/mesh/mesh.py)
VARIABLES
    comps,           \* the components trimesh's split() finds in the input mesh
    rdc,             \* the argument remove_disconnected_components
    kept,            \* self.mesh: 0 the whole input, i the i-th component
    num_vertices, num_faces, num_edges,
    cache,           \* keys of self.cache
    computed,        \* times each cached property was computed since __reset
    fresh,           \* no property was read since __reset
    edges_read,      \* the last value undirected_edge_indices returned
    opc,             \* "new", "ready", "KeyError"
    dirFile, cwdFile,  \* the files directory/file_name and ./file_name
    saveCall, saveRet  \* the arguments of save() and what it returned

objVars == <<comps, rdc, kept, num_vertices, num_faces, num_edges, cache,
             computed, fresh, edges_read, opc, dirFile, cwdFile, saveCall, saveRet>>

argVars == <<ARGS, refresh0, C, lines>>
ctlVars == <<pc, idx, err, atom_mapper>>
outVars == <<manifest, manifestOpen, temps, loaded, written, adjFiles>>
meshVars == <<meshOnDisk, cwdMesh, meshFile, mesh, generated>>
dataVars == <<prior, bundle, arrays, update_features, update_labels, FEATURES, Y>>
nbrVars == <<graph, fv, fk, nbrs, mpc, objVars>>
vars == <<argVars, ctlVars, outVars, meshVars, dataVars, nbrVars>>


\* ------------------------------------------------------------------ helpers
\* The bundle file before np.load or os.path.exists looked at it.
Unread == [state |-> "unread", arrays |-> EmptyDict]

IsComment_Never(line) == FALSE

\* line 100: fileName[0] == '#'
IsComment(line) == line = "comment"

\* Mesh.save(directory, overwrite): the value returned and whether the mesh was
\* exported.  The export goes to file_name, a path relative to the working
\* directory, and the method then falls off its end.
MeshSave(exists, overwrite) ==
    IF exists /\ ~overwrite
    THEN [ret |-> "path", exported |-> FALSE]
    ELSE [ret |-> "None", exported |-> TRUE]

\* line 160
UpdateFeatures(args, d) == (~args.no_features) /\ (args.refresh \/ ~Has(d, "X"))

\* line 224, label_names = "Y_A"
UpdateLabels(args, d) == (~args.no_labels) /\ (args.refresh \/ ~Has(d, "Y_A"))

\* lines 149-157
LoadedArrays(args, file, m) ==
    WithGeometry(IF file.state # "absent" /\ ~args.refresh
                 THEN file.arrays ELSE EmptyDict, m)

\* lines 239-247
MergedArrays(d, uf, feats, ul, y) ==
    LET d1 == IF uf THEN PutAll(d, FeatKeys, feats) ELSE d
    IN IF ul THEN PutAll(d1, LabelKeysA, y) ELSE d1

\* line 252
ManifestLine(m, i) == Append(m, i)

\* an exception leaves main(): nothing catches it
Abort(kind) ==
    /\ pc' = "aborted"
    /\ err' = kind

\* --------------------------------------------------------------- main()
\* lines 68-95: standard area, atom mapper, open the manifest
Start ==
    /\ pc = "start"
    /\ IF "AREA_MEASURE" \notin C
       THEN /\ Abort("config")
            /\ UNCHANGED <<atom_mapper, manifest, manifestOpen>>
       ELSE IF ~ARGS.no_labels /\ ~ARGS.moieties_file
       THEN /\ Abort("config")
            /\ UNCHANGED <<atom_mapper, manifest, manifestOpen>>
       ELSE /\ atom_mapper' = ~ARGS.no_labels
            /\ manifestOpen' = TRUE
            /\ manifest' = <<>>
            /\ pc' = "readline"
            /\ UNCHANGED err
    /\ UNCHANGED <<argVars, idx, temps, loaded, written, adjFiles,
                   meshVars, dataVars, nbrVars>>

\* lines 98-102: next line of the structures file
ReadLine ==
    /\ pc = "readline"
    /\ idx < Len(lines)
    /\ idx' = idx + 1
    /\ IF lines[idx + 1] = "blank"
       THEN Abort("structure")
       ELSE /\ pc' = IF IsComment(lines[idx + 1]) THEN "readline" ELSE "load"
            /\ UNCHANGED err
    /\ UNCHANGED <<argVars, atom_mapper, outVars, meshVars, dataVars, nbrVars>>

\* lines 105-107: StructureData, getEntities
LoadStructure ==
    /\ pc = "load"
    /\ IF "PDB_FILES_PATH" \notin C
       THEN Abort("config") /\ UNCHANGED loaded
       ELSE /\ loaded' = loaded \cup {idx}
            /\ IF atom_mapper
               THEN pc' = "clean" /\ UNCHANGED err
               ELSE Abort("unbound")
    /\ UNCHANGED <<argVars, idx, atom_mapper, manifest, manifestOpen, temps,
                   written, adjFiles, meshVars, dataVars, nbrVars>>

\* line 110: cleanProtein writes the pqr file
CleanProtein ==
    /\ pc = "clean"
    /\ IF "HYDROGENS" \notin C
       THEN Abort("config") /\ UNCHANGED temps
       ELSE /\ temps' = temps \cup {<<idx, "pqr">>}
            /\ pc' = "savepdb"
            /\ UNCHANGED err
    /\ UNCHANGED <<argVars, idx, atom_mapper, manifest, manifestOpen, loaded,
                   written, adjFiles, meshVars, dataVars, nbrVars>>

\* line 114: protein.save writes the pdb file
SavePdb ==
    /\ pc = "savepdb"
    /\ temps' = temps \cup {<<idx, "pdb">>}
    /\ pc' = "mesh"
    /\ UNCHANGED <<argVars, idx, err, atom_mapper, manifest, manifestOpen, loaded,
                   written, adjFiles, meshVars, dataVars, nbrVars>>

\* lines 117-144: generate the mesh or load the cached one
MeshStep ==
    /\ pc = "mesh"
    /\ \E onDisk \in StoredMeshes :
        /\ meshOnDisk' = onDisk
        /\ IF "MESH_FILES_PATH" \notin C
           THEN /\ Abort("config")
                /\ UNCHANGED <<ARGS, mesh, generated, meshFile, cwdMesh>>
           ELSE /\ UNCHANGED err
                /\ pc' = "arrays"
                /\ IF ARGS.refresh
                   THEN /\ \E m \in Meshes : mesh' = m
                        /\ generated' = TRUE
                        /\ meshFile' = MeshSave(onDisk # "none", TRUE).ret
                        /\ cwdMesh' = MeshSave(onDisk # "none", TRUE).exported
                        /\ UNCHANGED ARGS
                   ELSE IF onDisk # "none"
                   THEN /\ mesh' = onDisk
                        /\ meshFile' = "path"
                        /\ UNCHANGED <<ARGS, generated, cwdMesh>>
                   ELSE /\ \E m \in Meshes : mesh' = m
                        /\ generated' = TRUE
                        /\ meshFile' = MeshSave(FALSE, FALSE).ret
                        /\ cwdMesh' = MeshSave(FALSE, FALSE).exported
                        /\ ARGS' = [ARGS EXCEPT !.refresh = TRUE]
    /\ UNCHANGED <<refresh0, C, lines, idx, atom_mapper, outVars, dataVars, nbrVars>>

\* lines 148-157: load the bundle, store the geometry
LoadArrays ==
    /\ pc = "arrays"
    /\ IF "FEATURE_DATA_PATH" \notin C
       THEN /\ Abort("config")
            /\ UNCHANGED <<prior, bundle, arrays>>
       ELSE \E file \in StoredBundles :
            /\ prior' = file
            /\ bundle' = file
            /\ arrays' = LoadedArrays(ARGS, file, mesh)
            /\ pc' = "features"
            /\ UNCHANGED err
    /\ UNCHANGED <<argVars, idx, atom_mapper, outVars, meshVars,
                   update_features, update_labels, FEATURES, Y, nbrVars>>

\* lines 160-221: features
Features ==
    /\ pc = "features"
    /\ update_features' = UpdateFeatures(ARGS, arrays)
    /\ FEATURES' = IF update_features' THEN mesh ELSE FEATURES
    /\ pc' = "labels"
    /\ UNCHANGED <<argVars, idx, err, atom_mapper, outVars, meshVars,
                   prior, bundle, arrays, update_labels, Y, nbrVars>>

\* lines 224-233: labels
Labels ==
    /\ pc = "labels"
    /\ update_labels' = UpdateLabels(ARGS, arrays)
    /\ IF update_labels' /\ ~(LabelConfigKeys \subseteq C)
       THEN Abort("config") /\ UNCHANGED Y
       ELSE /\ Y' = IF update_labels' THEN mesh ELSE Y
            /\ pc' = "output"
            /\ UNCHANGED err
    /\ UNCHANGED <<argVars, idx, atom_mapper, outVars, meshVars,
                   prior, bundle, arrays, update_features, FEATURES, nbrVars>>

\* lines 239-250: merge the new arrays, np.savez_compressed opens fname
Output ==
    /\ pc = "output"
    /\ arrays' = MergedArrays(arrays, update_features, FEATURES, update_labels, Y)
    /\ bundle' = Truncated
    /\ pc' = "writing"
    /\ UNCHANGED <<argVars, idx, err, atom_mapper, outVars, meshVars,
                   prior, update_features, update_labels, FEATURES, Y, nbrVars>>

\* line 250: np.savez_compressed returns
SavezDone ==
    /\ pc = "writing"
    /\ bundle' = Complete(arrays)
    /\ written' = written \cup {idx}
    /\ pc' = "manifest"
    /\ UNCHANGED <<argVars, idx, err, atom_mapper, manifest, manifestOpen, temps,
                   loaded, adjFiles, meshVars, prior, arrays, update_features,
                   update_labels, FEATURES, Y, nbrVars>>

\* line 252: PROCESSED.write
WriteManifest ==
    /\ pc = "manifest"
    /\ manifest' = ManifestLine(manifest, idx)
    /\ pc' = "adjacency"
    /\ UNCHANGED <<argVars, idx, err, atom_mapper, manifestOpen, temps, loaded,
                   written, adjFiles, meshVars, dataVars, nbrVars>>

\* lines 255-258: save_npz of the adjacency matrix
Adjacency ==
    /\ pc = "adjacency"
    /\ adjFiles' = IF ARGS.no_adjacency THEN adjFiles ELSE adjFiles \cup {idx}
    /\ pc' = "cleanup"
    /\ UNCHANGED <<argVars, idx, err, atom_mapper, manifest, manifestOpen, temps,
                   loaded, written, meshVars, dataVars, nbrVars>>

\* lines 261-262: os.remove(pdb), os.remove(pqr); the loop body ends and its
\* locals are dead until the next iteration assigns them again
CleanUp ==
    /\ pc = "cleanup"
    /\ temps' = temps \ {<<idx, "pdb">>, <<idx, "pqr">>}
    /\ pc' = "readline"
    /\ meshOnDisk' = "?"
    /\ cwdMesh' = FALSE
    /\ meshFile' = "-"
    /\ mesh' = "-"
    /\ generated' = FALSE
    /\ prior' = Unread
    /\ bundle' = Unread
    /\ arrays' = EmptyDict
    /\ update_features' = FALSE
    /\ update_labels' = FALSE
    /\ FEATURES' = "-"
    /\ Y' = "-"
    /\ UNCHANGED <<argVars, idx, err, atom_mapper, manifest, manifestOpen, loaded,
                   written, adjFiles, nbrVars>>

\* line 264: PROCESSED.close()
Close ==
    /\ pc = "readline"
    /\ idx = Len(lines)
    /\ manifestOpen' = FALSE
    /\ pc' = "done"
    /\ UNCHANGED <<argVars, idx, err, atom_mapper, manifest, temps, loaded,
                   written, adjFiles, meshVars, dataVars, nbrVars>>

\* The statement about to run raises (StructureData, cleanProtein,
\* protein.save, generateMesh or trimesh.load, np.load, a feature provider or
\* the solver, assignMeshLabelsFromStructure, np.savez_compressed part-way,
\* save_npz, os.remove), or the process is stopped there.
RaisePoints == {"load", "clean", "savepdb", "mesh", "arrays", "features",
                "labels", "writing", "adjacency", "cleanup"}

Raise ==
    /\ pc \in RaisePoints
    /\ Abort("structure")
    /\ UNCHANGED <<argVars, idx, atom_mapper, outVars, meshVars, dataVars, nbrVars>>

Next ==
    \/ Start
    \/ ReadLine
    \/ LoadStructure
    \/ CleanProtein
    \/ SavePdb
    \/ MeshStep
    \/ LoadArrays
    \/ Features
    \/ Labels
    \/ Output
    \/ SavezDone
    \/ WriteManifest
    \/ Adjacency
    \/ CleanUp
    \/ Close
    \/ Raise

Flags == [refresh : BOOLEAN, no_features : BOOLEAN, no_labels : BOOLEAN,
          no_adjacency : BOOLEAN, moieties_file : BOOLEAN]

\* the state main() starts in, for given arguments, config and structures file
InitMain(args, config, list) ==
    /\ ARGS = args
    /\ refresh0 = args.refresh
    /\ C = config
    /\ lines = list
    /\ pc = "start"
    /\ idx = 0
    /\ err = "none"
    /\ atom_mapper = FALSE
    /\ manifest = <<>>
    /\ manifestOpen = FALSE
    /\ temps = {}
    /\ loaded = {}
    /\ written = {}
    /\ adjFiles = {}
    /\ meshOnDisk = "?"
    /\ cwdMesh = FALSE
    /\ meshFile = "-"
    /\ mesh = "-"
    /\ generated = FALSE
    /\ prior = Unread
    /\ bundle = Unread
    /\ arrays = EmptyDict
    /\ update_features = FALSE
    /\ update_labels = FALSE
    /\ FEATURES = "-"
    /\ Y = "-"

CachedProps == {"vertex_adjacency_matrix", "undirected_edge_indices",
                "cot_matrix", "mass_matrix"}

\* no Mesh object is under construction
NoObject ==
    /\ comps = <<>>
    /\ rdc = TRUE
    /\ kept = 0
    /\ num_vertices = 0
    /\ num_faces = 0
    /\ num_edges = 0
    /\ cache = {}
    /\ computed = [p \in CachedProps |-> 0]
    /\ fresh = FALSE
    /\ edges_read = {}
    /\ opc = "none"
    /\ dirFile = "none"
    /\ cwdFile = "none"
    /\ saveCall = "-"
    /\ saveRet = "-"

NoCall ==
    /\ graph = [u \in 1..NumVerts |-> {}]
    /\ fv = 1
    /\ fk = 1
    /\ nbrs = {}
    /\ mpc = "idle"

\* the config file: complete, or with one of the required keys missing
Configs == {RequiredKeys} \cup {RequiredKeys \ {k} : k \in RequiredKeys}

\* every flag combination, every config, every structures file
Init ==
    /\ \E args \in Flags, config \in Configs, list \in ListFiles :
          InitMain(args, config, list)
    /\ NoCall
    /\ NoObject

Spec == Init /\ [][Next]_vars


\* ------------------------------------------------------- claims on main()
\* where the current iteration stands
MeshChosen == pc \in {"arrays", "features", "labels", "output", "writing",
                      "manifest", "adjacency", "cleanup"}

Decided == pc \in {"output", "writing", "manifest", "adjacency", "cleanup"}

Wrote == pc \in {"manifest", "adjacency", "cleanup"}

FullBundle(file) ==
    /\ file.state = "complete"
    /\ GeomKeys \cup FeatKeys \cup LabelKeysA \subseteq Keys(file.arrays)

\* the structure lines whose iteration ran to its end
Processed ==
    {i \in 1..Len(lines) :
        /\ lines[i] = "structure"
        /\ \/ i < idx
           \/ i = idx /\ pc \in {"readline", "done"}}

RECURSIVE Ascending(_)
Ascending(S) ==
    IF S = {} THEN <<>>
    ELSE LET hi == CHOOSE x \in S : \A y \in S : y <= x
         IN Append(Ascending(S \ {hi}), hi)

Range(q) == {q[i] : i \in 1..Len(q)}

\* C1: in every iteration, features (labels) are recomputed if and only if they
\* are requested and either absent from the bundle found on disk or forced by
\* the caller's --refresh.
C1_RecomputeIffRequestedAndNeeded ==
    Decided =>
        /\ update_features <=>
              (~ARGS.no_features /\ (refresh0 \/ ~Has(prior.arrays, "X")))
        /\ update_labels <=>
              (~ARGS.no_labels /\ (refresh0 \/ ~Has(prior.arrays, "Y_A")))

\* C2: without --refresh, a structure whose bundle is fully populated and whose
\* mesh file exists (the mesh the bundle was computed on) gets no new mesh, no
\* new features, no new labels, and its bundle is rewritten unchanged.
C2_FullBundleIsNoOp ==
    (Wrote /\ ~refresh0 /\ FullBundle(prior) /\ meshOnDisk = prior.arrays["V"]) =>
        /\ ~generated
        /\ ~update_features
        /\ ~update_labels
        /\ bundle = prior

\* C3: generateMesh is called for a structure only if the caller passed
\* --refresh or the structure has no cached mesh file.
C3_GenerateOnlyIfAskedOrMissing ==
    (MeshChosen /\ generated) => (refresh0 \/ meshOnDisk = "none")

\* C4: when an iteration recomputes a group, every key of the other feature
\* and label groups found in the bundle is written back with its value
\* unchanged.
C4_OtherGroupsPreserved ==
    (Wrote /\ (generated \/ update_features \/ update_labels)) =>
        \A k \in FeatKeys \cup LabelKeysA \cup LabelKeysB :
            ( /\ Has(prior.arrays, k)
              /\ ~(k \in FeatKeys /\ update_features)
              /\ ~(k \in LabelKeysA /\ update_labels) )
            => bundle.arrays[k] = prior.arrays[k]

\* C5: a failure inside the loop body does not stop the run: main() goes on
\* to the later lines and closes the manifest.
C5_FailureDoesNotHaltBatch ==
    err = "structure" => pc # "aborted"

\* C6: between iterations and after the run, on every exit path, no pdb or
\* pqr temporary file is left.
C6_NoTempFileOutsideIteration ==
    pc \in {"readline", "done", "aborted"} => temps = {}

\* C7: whenever the process stops, the bundle file is the complete previous
\* bundle or the complete new one.
C7_BundleWriteAtomic ==
    pc = "aborted" =>
        \/ bundle = Unread
        \/ bundle = prior
        \/ bundle = Complete(arrays)

\* C8 as claimed: every manifest line names a written bundle, and the manifest
\* is the list of the structure lines processed successfully, in input order.
C8_ManifestListsProcessed ==
    /\ Range(manifest) \subseteq written
    /\ pc \in {"readline", "done", "aborted"} => manifest = Ascending(Processed)

\* C8 as amended: every manifest line names a structure line whose bundle
\* write has returned, and outside the instant between that return and
\* PROCESSED.write the manifest is the list of the lines whose bundle write
\* returned, in input order; comment lines and structures that failed before
\* the write returned have no line.
C8_ManifestListsWritten ==
    /\ \A i \in Range(manifest) : i \in written /\ lines[i] = "structure"
    /\ pc # "manifest" => manifest = Ascending(written)
    /\ pc = "manifest" => manifest = Ascending(written \ {idx})

\* a run that wrote one bundle and then failed on the next structure before
\* its bundle was written
C8_Witness ==
    /\ pc = "aborted"
    /\ idx = 2
    /\ manifest = <<1>>
    /\ 2 \notin written
    /\ <<2, "pqr">> \in temps

\* C9: a configuration error stops the run before any structure is loaded,
\* any temporary file or mesh is created, any bundle or manifest line written.
C9_ConfigErrorBeforeAnyWork ==
    (pc = "aborted" /\ err = "config") =>
        /\ loaded = {}
        /\ temps = {}
        /\ ~generated
        /\ written = {}
        /\ manifest = <<>>


\* The row count of an array is the vertex count of the mesh it was computed
\* on; m1 and m2 are meshes of different vertex counts.
Rows(val) == val

\* C12: in every bundle written, X and every label vector Y_<name> have as
\* many rows as V; a cached X or Y_<name> of another row count than the
\* current mesh makes the iteration fail instead of being written next to the
\* new V and F.
C12_RowsMatchGeometry ==
    (Wrote /\ bundle.state = "complete") =>
        \A k \in {"X", "Y_A", "Y_B"} :
            Has(bundle.arrays, k) =>
                Rows(bundle.arrays[k]) = Rows(bundle.arrays["V"])

\* C13: with --no_labels every structure is processed to its end without an
\* atom classifier (the run never stops on the unbound atom_mapper), and the
\* bundle written gains no label key.
C13_NoLabelsRunsWithoutClassifier ==
    ARGS.no_labels =>
        /\ err # "unbound"
        /\ Wrote => \A k \in LabelKeysA \cup LabelKeysB :
                        Has(bundle.arrays, k) => Has(prior.arrays, k)

\* ------------------------------------------------- Mesh.findNeighbors
Verts == 1..NumVerts

\* the vertex adjacency graphs on Verts: symmetric, without loops
Graphs ==
    { [u \in Verts |-> {w \in Verts : {u, w} \in E}] :
        E \in SUBSET {e \in SUBSET Verts : Cardinality(e) = 2} }

\* the nodes of the networkx graph: the vertices that lie on an edge
Nodes(G) == {u \in Verts : G[u] # {}}

SkipOrigin_Never(n, vo) == FALSE

\* line 270: n == vo
SkipOrigin(n, vo) == n = vo

RECURSIVE findNeighbors(_, _, _, _, _)
RECURSIVE ForNeighbors(_, _, _, _, _)
\* lines 269-273: the loop over neighbors(v), ns the neighbours still to visit;
\* a vertex is added to nlist (nlist.add(n) leaves a set that holds n as it
\* is), then searched from with k-1
ForNeighbors(G, ns, k, nlist, vo) ==
    IF ns = {} THEN nlist
    ELSE LET n == CHOOSE x \in ns : \A y \in ns : x <= y
         IN  IF SkipOrigin(n, vo)
             THEN ForNeighbors(G, ns \ {n}, k, nlist, vo)
             ELSE IF n \in nlist
             THEN ForNeighbors(G, ns \ {n}, k,
                               findNeighbors(G, n, k - 1, nlist, vo), vo)
             ELSE ForNeighbors(G, ns \ {n}, k,
                               findNeighbors(G, n, k - 1, nlist \cup {n}, vo), vo)

\* lines 261-274, nlist being the one set all the calls add to; every nested
\* call runs with k-1, and k = 0 returns at once
findNeighbors(G, v, k, nlist, vo) ==
    IF k = 0 THEN nlist ELSE ForNeighbors(G, G[v], k, nlist, vo)

\* the call findNeighbors(v, k): nlist = set(), vo = v
CallFindNeighbors ==
    /\ mpc = "idle"
    /\ nbrs' = findNeighbors(graph, fv, fk, {}, fv)
    /\ mpc' = "returned"
    /\ UNCHANGED <<graph, fv, fk, objVars, argVars, ctlVars, outVars, meshVars,
                   dataVars>>

NextMesh == CallFindNeighbors

InitMesh ==
    /\ InitMain([refresh |-> FALSE, no_features |-> FALSE, no_labels |-> FALSE,
                 no_adjacency |-> FALSE, moieties_file |-> TRUE],
                RequiredKeys, <<>>)
    /\ graph \in Graphs
    /\ fv \in Nodes(graph)
    /\ fk \in 1..MaxK
    /\ nbrs = {}
    /\ mpc = "idle"
    /\ NoObject

SpecMesh == InitMesh /\ [][NextMesh]_vars

\* the vertices at hop distance at most k from v
RECURSIVE Within(_, _, _)
Within(G, v, k) ==
    IF k = 0 THEN {v}
    ELSE LET near == Within(G, v, k - 1)
         IN near \cup UNION {G[u] : u \in near}

\* C10: findNeighbors(v, k), k >= 1, returns exactly the vertices other than v
\* at hop distance at most k from v; for k = 1 these are the direct neighbours
\* of v; v is never returned.
C10_NeighborsWithinKHops ==
    mpc = "returned" =>
        /\ nbrs = Within(graph, fv, fk) \ {fv}
        /\ fk = 1 => nbrs = graph[fv]
        /\ fv \notin nbrs

\* a call with k >= 2 from a vertex v of a triangle (the search comes back to
\* v) that returns a vertex which is no direct neighbour of v
C10_Witness ==
    /\ mpc = "returned"
    /\ fk >= 2
    /\ nbrs # graph[fv]
    /\ \E a \in graph[fv], b \in graph[fv] : a # b /\ b \in graph[a]


\* ------------------------------------------------------- the Mesh object
\* A component of n vertices is a strip of n-2 triangles on the vertices
\* 1..n; trimesh lists three edges for every face.
Strip(n) == [nv |-> n, nf |-> n - 2, ne |-> 3 * (n - 2)]

Inputs == {q \in SeqsUpTo({Strip(n) : n \in 3..MaxSize}, MaxComps) : q # <<>>}

RECURSIVE SumTo(_, _, _)
SumTo(q, field, i) == IF i = 0 THEN 0 ELSE q[i][field] + SumTo(q, field, i - 1)

\* self.mesh as loaded: all the components together
Whole(q) == [nv |-> SumTo(q, "nv", Len(q)), nf |-> SumTo(q, "nf", Len(q)),
             ne |-> SumTo(q, "ne", Len(q))]

MeshOf(q, i) == IF i = 0 THEN Whole(q) ELSE q[i]

\* line 234: self.mesh.split(), as indices into comps
Split(q, i) == IF i = 0 THEN [j \in 1..Len(q) |-> j] ELSE <<i>>

Better_OrEqual(a, b) == a >= b

\* np.argmax moves on to a later entry only when it is greater
Better(a, b) == a > b

\* line 237: np.argmax(sizes), a scan from the left
RECURSIVE ArgMaxFrom(_, _, _)
ArgMaxFrom(sizes, i, best) ==
    IF i > Len(sizes) THEN best
    ELSE ArgMaxFrom(sizes, i + 1, IF Better(sizes[i], sizes[best]) THEN i ELSE best)

ArgMax(sizes) == ArgMaxFrom(sizes, 2, 1)

\* lines 234-237: the component remove_disconnected_components keeps
Largest(q, i) ==
    LET components == Split(q, i)
        sizes == [j \in 1..Len(components) |-> q[components[j]].nv]
    IN components[ArgMax(sizes)]

\* lines 220-229: __reset
Reset(i) ==
    /\ num_vertices' = MeshOf(comps, i).nv
    /\ num_faces' = MeshOf(comps, i).nf
    /\ num_edges' = MeshOf(comps, i).ne
    /\ cache' = {}
    /\ computed' = [p \in CachedProps |-> 0]
    /\ fresh' = TRUE

mainVars == <<argVars, ctlVars, outVars, meshVars, dataVars, graph, fv, fk, nbrs, mpc>>

\* lines 100-122: __init__
Construct ==
    /\ opc = "new"
    /\ kept' = IF rdc THEN Largest(comps, 0) ELSE 0
    /\ Reset(kept')
    /\ opc' = "ready"
    /\ UNCHANGED <<comps, rdc, edges_read, dirFile, cwdFile, saveCall, saveRet, mainVars>>

\* lines 231-238: remove_disconnected_components()
RemoveDisconnected ==
    /\ opc = "ready"
    /\ kept' = Largest(comps, kept)
    /\ Reset(kept')
    /\ UNCHANGED <<comps, rdc, edges_read, opc, dirFile, cwdFile, saveCall, saveRet,
                   mainVars>>

\* the vertices of component i as numbered in self.mesh
Base(i) == IF kept = 0 THEN SumTo(comps, "nv", i - 1) ELSE 0

\* the vertex pairs a strip of n vertices joins by an edge
StripEdges(n) ==
    {e \in (1..n) \X (1..n) :
        e[1] # e[2] /\ e[1] <= e[2] + 2 /\ e[2] <= e[1] + 2}

\* the entries (row, col) of the vertex adjacency matrix of self.mesh
MatrixEntries ==
    UNION { { <<Base(i) + e[1], Base(i) + e[2]>> : e \in StripEdges(comps[i].nv) } :
            i \in IF kept = 0 THEN 1..Len(comps) ELSE {kept} }

\* lines 152-158: vertex_adjacency_matrix
ReadVertexAdjacencyMatrix ==
    /\ opc = "ready"
    /\ IF "vertex_adjacency_matrix" \notin cache
       THEN /\ cache' = cache \cup {"vertex_adjacency_matrix"}
            /\ computed' = [computed EXCEPT !["vertex_adjacency_matrix"] = @ + 1]
       ELSE UNCHANGED <<cache, computed>>
    /\ fresh' = FALSE
    /\ UNCHANGED <<comps, rdc, kept, num_vertices, num_faces, num_edges, edges_read,
                   opc, dirFile, cwdFile, saveCall, saveRet, mainVars>>

\* lines 160-170: undirected_edge_indices; the matrix is taken out of
\* self.cache, not through the property
ReadUndirectedEdgeIndices ==
    /\ opc = "ready"
    /\ fresh' = FALSE
    /\ IF "undirected_edge_indices" \in cache
       THEN /\ edges_read' = MatrixEntries
            /\ UNCHANGED <<cache, computed, opc>>
       ELSE IF "vertex_adjacency_matrix" \in cache
       THEN /\ cache' = cache \cup {"undirected_edge_indices"}
            /\ computed' = [computed EXCEPT !["undirected_edge_indices"] = @ + 1]
            /\ edges_read' = MatrixEntries
            /\ UNCHANGED opc
       ELSE /\ opc' = "KeyError"
            /\ UNCHANGED <<cache, computed, edges_read>>
    /\ UNCHANGED <<comps, rdc, kept, num_vertices, num_faces, num_edges,
                   dirFile, cwdFile, saveCall, saveRet, mainVars>>

\* lines 204-214: cot_matrix, mass_matrix
ReadMatrix ==
    /\ opc = "ready"
    /\ \E p \in {"cot_matrix", "mass_matrix"} :
        IF p \notin cache
        THEN /\ cache' = cache \cup {p}
             /\ computed' = [computed EXCEPT ![p] = @ + 1]
        ELSE UNCHANGED <<cache, computed>>
    /\ fresh' = FALSE
    /\ UNCHANGED <<comps, rdc, kept, num_vertices, num_faces, num_edges, edges_read,
                   opc, dirFile, cwdFile, saveCall, saveRet, mainVars>>

\* the file at os.path.join(directory, file_name)
AtPath(directory, inDir, inCwd) == IF directory = "." THEN inCwd ELSE inDir

\* lines 276-288: save(directory, overwrite=...), once per object
Save ==
    /\ opc = "ready"
    /\ saveRet = "-"
    /\ \E directory \in {".", "dir"}, overwrite \in BOOLEAN :
        LET before == AtPath(directory, dirFile, cwdFile)
            r == MeshSave(before # "none", overwrite)
        IN /\ saveCall' = [directory |-> directory, overwrite |-> overwrite,
                           before |-> before]
           /\ saveRet' = r.ret
           /\ cwdFile' = IF r.exported THEN "new" ELSE cwdFile
    /\ UNCHANGED <<comps, rdc, kept, num_vertices, num_faces, num_edges, cache,
                   computed, fresh, edges_read, opc, dirFile, mainVars>>

NextObject ==
    \/ Construct
    \/ RemoveDisconnected
    \/ ReadVertexAdjacencyMatrix
    \/ ReadUndirectedEdgeIndices
    \/ ReadMatrix
    \/ Save

InitObject ==
    /\ InitMain([refresh |-> FALSE, no_features |-> FALSE, no_labels |-> FALSE,
                 no_adjacency |-> FALSE, moieties_file |-> TRUE],
                RequiredKeys, <<>>)
    /\ NoCall
    /\ comps \in Inputs
    /\ rdc \in BOOLEAN
    /\ kept = 0
    /\ num_vertices = 0
    /\ num_faces = 0
    /\ num_edges = 0
    /\ cache = {}
    /\ computed = [p \in CachedProps |-> 0]
    /\ fresh = FALSE
    /\ edges_read = {}
    /\ opc = "new"
    /\ dirFile \in {"none", "old"}
    /\ cwdFile \in {"none", "old"}
    /\ saveCall = "-"
    /\ saveRet = "-"

SpecObject == InitObject /\ [][NextObject]_vars


\* C11: a Mesh constructed with remove_disconnected_components=True wraps the
\* component of greatest vertex count, the first of them in split order when
\* several tie; num_vertices, num_faces and num_edges are the counts of that
\* component, and the property cache is empty until a property is read.
C11_KeepsFirstLargestComponent ==
    (rdc /\ opc \notin {"none", "new"}) =>
        /\ kept \in 1..Len(comps)
        /\ \A j \in 1..Len(comps) : comps[j].nv <= comps[kept].nv
        /\ \A j \in 1..(kept - 1) : comps[j].nv < comps[kept].nv
        /\ num_vertices = comps[kept].nv
        /\ num_faces = comps[kept].nf
        /\ num_edges = comps[kept].ne
        /\ fresh => cache = {}

\* a freshly pruned mesh whose input has a smaller component first and then
\* two components that tie for the greatest vertex count
C11_Witness ==
    /\ rdc
    /\ opc = "ready"
    /\ fresh
    /\ kept = 2
    /\ Len(comps) >= 3
    /\ comps[1].nv < comps[2].nv
    /\ comps[3].nv = comps[2].nv
    /\ num_vertices < Whole(comps).nv

\* C14: save() returns the path directory/file_name and a mesh file is at that
\* path afterwards: the file that was there when it existed and overwrite is
\* false, the mesh just written otherwise.
C14_SaveReturnsPathOfWrittenFile ==
    saveRet # "-" =>
        /\ saveRet = "path"
        /\ LET now == AtPath(saveCall.directory, dirFile, cwdFile)
           IN  /\ now # "none"
               /\ IF saveCall.before # "none" /\ ~saveCall.overwrite
                  THEN now = saveCall.before
                  ELSE now = "new"

\* C15: reading undirected_edge_indices never fails, whatever was read before;
\* no cached property is computed twice between two resets; the edge index
\* set returned holds (j, i) with every (i, j).
C15_CachedPropertiesReadInAnyOrder ==
    /\ opc # "KeyError"
    /\ \A p \in CachedProps : computed[p] <= 1
    /\ \A e \in edges_read : <<e[2], e[1]>> \in edges_read

====
